---- MODULE Spec2Model ----
(***************************************************************************)
(* State-machine model of the sample-playback engine of                    *)
(* src-tauri/src/audio_engine.rs: the engine state behind one mutex, the   *)
(* control operations of AudioEngine and the audio callback write_audio,   *)
(* one output frame per step.                                              *)
(*                                                                         *)
(* Numbers.  Times (seconds, f32 in the source) are multiples of 1/Den s   *)
(* and are written as their numerator.  Buffer positions and playback      *)
(* rates (f64 in the source) are multiples of 1/Den sample and are written *)
(* as their numerator.  Envelope gains are exact fractions <<n, d>> in     *)
(* lowest terms.  Raw sample values shown to the visualiser are written in *)
(* units of 1/(4*Den).  All inputs are chosen so that these are exact,     *)
(* except that a position keeps the significand width of an f64 (F64Bits)  *)
(* and an index the width of a usize (UsizeBits), both scaled down.        *)
(***************************************************************************)
EXTENDS Integers, Sequences, FiniteSets, TLC

(* ---------------------------------------------------------------- bounds *)
MaxVoices == 2      \* longest active-voice list explored
MaxBuf == 1         \* longest hardware buffer, in frames
MaxFadePos == 4     \* largest value of a voice's fade_position explored
Den == 2            \* resolution of times and positions: multiples of 1/Den
MaxFill == 2         \* longest decoded sample, in multiples of WaveformPoints
UsizeBits == 10     \* width of usize: every buffer index explored is below
                    \* 2^UsizeBits, every saturating position at or above it
F64Bits == 7        \* width of the f64 significand: every position inside
                    \* or near a buffer is below 2^F64Bits and exact

(* ------------------------------------------------------- the environment *)
DeviceSR == 3       \* config.sample_rate(): device frames per second
InitMasterVolume == 1
InitMasterBpm == 120
DeviceChannels == 2      \* channels of the output device

NoRelease == -1     \* effective_release = None

WaveformPoints == 400   \* buckets of the downsampled waveform
VisualCap == 128        \* samples kept per key in the visual snapshot

UsizeMax == 2^UsizeBits - 1

Max(a, b) == IF a >= b THEN a ELSE b
Min(a, b) == IF a <= b THEN a ELSE b
Abs(a) == IF a >= 0 THEN a ELSE -a

\* decode_file's waveform of a non-empty interleaved PCM sequence: up to
\* WaveformPoints buckets of `step` frames, the peak magnitude of each.
WaveformStep(pcm, channels) ==
    LET step == (Len(pcm) \div channels) \div WaveformPoints
    IN  IF step = 0 THEN 1 ELSE step

RECURSIVE PeakOf(_, _, _)
PeakOf(pcm, from, to) ==
    IF from >= to THEN 0 ELSE Max(Abs(pcm[from + 1]), PeakOf(pcm, from + 1, to))

\* `start` and `end` of bucket i (from 0): 0-based, end exclusive.
BucketStart(pcm, channels, i) == i * WaveformStep(pcm, channels) * channels
BucketEnd(pcm, channels, i) ==
    Min(BucketStart(pcm, channels, i) + WaveformStep(pcm, channels) * channels,
        Len(pcm))

\* The passes of `for i in 0..400` that push a peak: the loop ends at the
\* first bucket that starts past the data, or after WaveformPoints passes.
WaveformPushes(pcm, channels) ==
    CHOOSE n \in 0..WaveformPoints :
        /\ n = WaveformPoints \/ BucketStart(pcm, channels, n) >= Len(pcm)
        /\ \A i \in 0..(n - 1) : BucketStart(pcm, channels, i) < Len(pcm)

Waveform(pcm, channels) ==
    IF pcm = <<>>
    THEN <<>>
    ELSE [i \in 1..WaveformPushes(pcm, channels) |->
             PeakOf(pcm, BucketStart(pcm, channels, i - 1),
                    BucketEnd(pcm, channels, i - 1))]

\* The AudioBuffer decode_file returns for a PCM sequence.
DecodedBuffer(pcm, sample_rate, channels) ==
    [data |-> pcm, sample_rate |-> sample_rate, channels |-> channels,
     waveform |-> Waveform(pcm, channels)]

\* Decoded buffers a load can produce.
BufMono == DecodedBuffer(<<1, -2, 3, -1>>, 3, 1)
BufStereo == DecodedBuffer(<<1, 2, -2, -1, 3, 1>>, 3, 2)
Buffers == {BufMono, BufStereo}

\* PlayParams values the control surface sends.
OneShot ==
    [volume |-> 1, attack |-> 2, release |-> 1, looping |-> FALSE,
     start_time |-> 0, end_time |-> 2, sync |-> FALSE, sample_bpm |-> 0]
Looped ==
    [volume |-> 2, attack |-> 2, release |-> 2, looping |-> TRUE,
     start_time |-> 0, end_time |-> 2, sync |-> TRUE, sample_bpm |-> 120]
Synced ==
    [volume |-> 1, attack |-> 0, release |-> 2, looping |-> FALSE,
     start_time |-> 1, end_time |-> 2, sync |-> TRUE, sample_bpm |-> 120]
LateStart ==
    [volume |-> 1, attack |-> 2, release |-> 0, looping |-> FALSE,
     start_time |-> 2, end_time |-> 3, sync |-> FALSE, sample_bpm |-> 0]
\* A loop whose end lies before its start, and one whose end lies past the
\* end of the sample.
LoopedBack ==
    [volume |-> 1, attack |-> 0, release |-> 1, looping |-> TRUE,
     start_time |-> 1, end_time |-> 0, sync |-> FALSE, sample_bpm |-> 0]
LoopedWide ==
    [volume |-> 1, attack |-> 0, release |-> 1, looping |-> TRUE,
     start_time |-> 1, end_time |-> 8, sync |-> FALSE, sample_bpm |-> 0]
\* A start time so late that the f64 position is coarser than one frame, and
\* still fits a usize.
StuckStart ==
    [volume |-> 1, attack |-> 0, release |-> 1, looping |-> FALSE,
     start_time |-> 2^(F64Bits + 1), end_time |-> 2^(F64Bits + 2),
     sync |-> FALSE, sample_bpm |-> 0]
\* A start time so late that the position does not fit a usize.
FarStart ==
    [volume |-> 1, attack |-> 0, release |-> 1, looping |-> FALSE,
     start_time |-> 2^UsizeBits, end_time |-> 2^UsizeBits + 2,
     sync |-> FALSE, sample_bpm |-> 0]

VARIABLES
    sound_bank,     \* AudioEngineState.sound_bank: key -> buffer
    voices,         \* AudioEngineState.voices
    master_volume,  \* AudioEngineState.master_volume
    master_bpm,     \* AudioEngineState.master_bpm
    levels,         \* AudioEngineState.levels: key -> VisualData
    lock,           \* the state mutex: "free", held by "ctl" or "cb", or
                    \* "poisoned" by a holder that panicked
    result,         \* what the control operation under way returns
    cb_pc,          \* the audio thread: "idle", "blocked", "running", "dead"
    cb_left,        \* frames of the hardware buffer still to produce
    decoding,       \* the loads whose decode_file is under way
    out             \* the frame of the hardware buffer written last, until
                    \* the callback hands the buffer back

vars ==
    <<sound_bank, voices, master_volume, master_bpm, levels, lock, result,
      cb_pc, cb_left, decoding, out>>

engine == <<sound_bank, voices, master_volume, master_bpm, levels>>

(* --------------------------------------------------------------- helpers *)
RECURSIVE Gcd(_, _)
Gcd(a, b) == IF b = 0 THEN a ELSE Gcd(b, a % b)

\* The fraction n/d (d > 0, n >= 0) in lowest terms.
Frac(n, d) == LET g == Gcd(n, d) IN <<n \div g, d \div g>>

\* Products and sums of such fractions; a numerator may be negative.
Times(a, b) == Frac(a[1] * b[1], a[2] * b[2])
Plus(a, b) == Frac(a[1] * b[2] + b[1] * a[2], a[2] * b[2])

\* The distance between the f64 values around the numerator n: 1 while n has
\* at most F64Bits significant bits, doubling with every bit more.
F64Ulp(n) ==
    IF Abs(n) < 2^F64Bits
    THEN 1
    ELSE 2^(CHOOSE e \in 1..16 :
                /\ 2^(F64Bits + e - 1) <= Abs(n)
                /\ Abs(n) < 2^(F64Bits + e))

\* The f64 result of an operation whose exact result has the numerator n:
\* the nearest f64 value, the one with the even significand on a tie.
F64(n) ==
    LET u == F64Ulp(n)
        q == n \div u
        r == n % u
    IN  IF 2 * r < u THEN q * u
        ELSE IF 2 * r > u THEN (q + 1) * u
        ELSE IF q % 2 = 0 THEN q * u
        ELSE (q + 1) * u

\* `(seconds as f64 * device_sr) as usize` for a non-negative time.
ToDeviceSamples(t) == (t * DeviceSR) \div Den

\* `time as f64 * file_sr * b_channels`, as a numerator over Den.
ToFilePos(t, buffer) == F64(t * buffer.sample_rate * buffer.channels)

\* The ids of the voices in the list (model bookkeeping: a voice keeps the
\* id it got when pushed, so that a step can be followed voice by voice).
Ids(vs) == {vs[i].id : i \in 1..Len(vs)}
FreshId(vs) == CHOOSE i \in 1..(Len(vs) + 1) : i \notin Ids(vs)

(* ------------------------------------------------------------ play_sound *)
\* playback_rate = file_sr / device_sr, times master_bpm / sample_bpm when
\* sync is asked for and sample_bpm > 0; a numerator over Den.
PlaybackRate(buffer, params, bpm) ==
    IF params.sync /\ params.sample_bpm > 0
    THEN (Den * buffer.sample_rate * bpm) \div (DeviceSR * params.sample_bpm)
    ELSE (Den * buffer.sample_rate) \div DeviceSR

NewVoice(key, buffer, params, bpm, id) ==
    [id |-> id,
     key |-> key,
     buffer |-> buffer,
     position |-> ToFilePos(params.start_time, buffer),
     playback_rate |-> PlaybackRate(buffer, params, bpm),
     looping |-> params.looping,
     loop_start |-> ToFilePos(params.start_time, buffer),
     loop_end |-> ToFilePos(params.end_time, buffer),
     gain |-> params.volume,
     attack_samples |-> ToDeviceSamples(params.attack),
     release_samples |-> ToDeviceSamples(params.release),
     stopped |-> FALSE,
     fade_position |-> 0,
     is_fading_out |-> FALSE,
     fade_start_gain |-> <<1, 1>>,
     fade_out_pos |-> 0,
     current_peak |-> 0,
     stop_command |-> FALSE,
     custom_release_set |-> FALSE,
     sync |-> params.sync,
     sample_bpm |-> params.sample_bpm]

\* A play that retriggers exclusively: it drops the voices of the key first.
PlayVoicesExclusive(vs, bank, bpm, key, params) ==
    IF key \in DOMAIN bank
    THEN Append(SelectSeq(vs, LAMBDA v : v.key # key),
                NewVoice(key, bank[key], params, bpm, FreshId(vs)))
    ELSE vs

\* The voice list and the result of play_sound(key, params).
PlayVoices(vs, bank, bpm, key, params) ==
    IF key \in DOMAIN bank
    THEN Append(vs, NewVoice(key, bank[key], params, bpm, FreshId(vs)))
    ELSE vs

\* A play that reports success whatever the key.
PlayResultSwallowed(bank, key) == "ok"

PlayResult(bank, key) ==
    IF key \in DOMAIN bank THEN "ok" ELSE "Sound not found"

(* ------------------------------------------------------------ stop_sound *)
\* A stop that does not skip the voices that are already fading.
StopVoiceAlsoFading(v, key, eff) ==
    IF v.key = key /\ ~v.stopped
    THEN IF eff # NoRelease
         THEN [v EXCEPT !.release_samples = ToDeviceSamples(eff),
                        !.custom_release_set = TRUE,
                        !.stop_command = TRUE]
         ELSE [v EXCEPT !.stop_command = TRUE]
    ELSE v

\* A stop that takes every voice, whatever its key.
StopVoiceAnyKey(v, key, eff) ==
    IF ~v.stopped /\ ~v.is_fading_out
    THEN IF eff # NoRelease
         THEN [v EXCEPT !.release_samples = ToDeviceSamples(eff),
                        !.custom_release_set = TRUE,
                        !.stop_command = TRUE]
         ELSE [v EXCEPT !.stop_command = TRUE]
    ELSE v

StopVoice(v, key, eff) ==
    IF v.key = key /\ ~v.stopped /\ ~v.is_fading_out
    THEN IF eff # NoRelease
         THEN [v EXCEPT !.release_samples = ToDeviceSamples(eff),
                        !.custom_release_set = TRUE,
                        !.stop_command = TRUE]
         ELSE [v EXCEPT !.stop_command = TRUE]
    ELSE v

StopVoices(vs, key, eff) == [i \in 1..Len(vs) |-> StopVoice(vs[i], key, eff)]

(* ---------------------------------------------------------- update_voice *)
\* An update that restarts the voice at its new loop start.
UpdateOneRestart(v, key, params) ==
    IF v.key = key /\ ~v.stopped
    THEN [v EXCEPT !.gain = params.volume,
                   !.looping = params.looping,
                   !.loop_start = ToFilePos(params.start_time, v.buffer),
                   !.loop_end = ToFilePos(params.end_time, v.buffer),
                   !.position = ToFilePos(params.start_time, v.buffer)]
    ELSE v

\* An update that retunes every voice, whatever its key.
UpdateOneAnyKey(v, key, params) ==
    IF ~v.stopped
    THEN [v EXCEPT !.gain = params.volume,
                   !.looping = params.looping,
                   !.loop_start = ToFilePos(params.start_time, v.buffer),
                   !.loop_end = ToFilePos(params.end_time, v.buffer)]
    ELSE v

UpdateOne(v, key, params) ==
    IF v.key = key /\ ~v.stopped
    THEN [v EXCEPT !.gain = params.volume,
                   !.looping = params.looping,
                   !.loop_start = ToFilePos(params.start_time, v.buffer),
                   !.loop_end = ToFilePos(params.end_time, v.buffer)]
    ELSE v

UpdateVoices(vs, key, params) ==
    [i \in 1..Len(vs) |-> UpdateOne(vs[i], key, params)]

(* -------------------------------------------------------------- stop_all *)
\* A stop-all that restarts the fades that are already under way.
StopAllOneRestart(v) == [v EXCEPT !.is_fading_out = TRUE, !.fade_out_pos = 0]

StopAllOne(v) ==
    IF ~v.is_fading_out
    THEN [v EXCEPT !.is_fading_out = TRUE, !.fade_out_pos = 0]
    ELSE v

StopAllVoices(vs) == [i \in 1..Len(vs) |-> StopAllOne(vs[i])]

(* ----------------------------------------------------------- write_audio *)
\* An envelope without attack: full gain from the first frame.
EnvGainNoAttack(v) == <<1, 1>>

\* 1. the attack gain, whatever the fading state
EnvGain(v) ==
    IF v.fade_position < v.attack_samples
    THEN Frac(v.fade_position, v.attack_samples)
    ELSE <<1, 1>>

\* A stop arrival that never shortens the release.
StopArrivalNoSymmetry(v) ==
    IF v.stop_command /\ ~v.is_fading_out
    THEN [v EXCEPT !.is_fading_out = TRUE,
                   !.fade_start_gain = EnvGain(v),
                   !.fade_out_pos = 0]
    ELSE v

\* A stop arrival that shortens the release whatever the caller gave.
StopArrivalAlwaysSymmetric(v) ==
    IF v.stop_command /\ ~v.is_fading_out
    THEN [v EXCEPT !.release_samples =
                       IF v.fade_position < v.attack_samples
                       THEN v.fade_position
                       ELSE @,
                   !.is_fading_out = TRUE,
                   !.fade_start_gain = EnvGain(v),
                   !.fade_out_pos = 0]
    ELSE v

\* 2. a pending stop command starts the fade; inside the attack, and with no
\* release given by the caller, the release becomes the elapsed attack
StopArrival(v) ==
    IF v.stop_command /\ ~v.is_fading_out
    THEN [v EXCEPT !.release_samples =
                       IF ~v.custom_release_set
                          /\ v.fade_position < v.attack_samples
                       THEN v.fade_position
                       ELSE @,
                   !.is_fading_out = TRUE,
                   !.fade_start_gain = EnvGain(v),
                   !.fade_out_pos = 0]
    ELSE v

\* device_samples_remaining <= release_samples, where
\* device_samples_remaining = (loop_end - position) / (playback_rate *
\* b_channels) in f64: a zero divisor gives +inf, -inf or NaN.
InReleaseWindow(v) ==
    LET remaining == v.loop_end - v.position
        divisor == v.playback_rate * v.buffer.channels
    IN  IF divisor = 0
        THEN remaining < 0
        ELSE remaining <= v.release_samples * divisor

\* 3. the natural release of a one-shot voice
NaturalRelease(v) ==
    IF ~v.is_fading_out /\ ~v.looping /\ InReleaseWindow(v)
    THEN [v EXCEPT !.is_fading_out = TRUE,
                   !.fade_start_gain = EnvGain(v),
                   !.fade_out_pos = 0]
    ELSE v

\* A fade that ends one frame late (> for >=).
ReleaseDoneLate(v) ==
    IF v.release_samples > 0 THEN v.fade_out_pos > v.release_samples ELSE TRUE

\* release_progress >= 1.0
ReleaseDone(v) ==
    IF v.release_samples > 0 THEN v.fade_out_pos >= v.release_samples ELSE TRUE

\* A fade that holds its start gain until the voice is removed.
EnvelopeFlatFade(v, e) ==
    IF v.is_fading_out
    THEN LET w == IF v.fade_out_pos = 0
                  THEN [v EXCEPT !.fade_start_gain = e]
                  ELSE v
         IN  IF ReleaseDone(w)
             THEN [keep |-> FALSE, env_gain |-> <<0, 1>>,
                   voice |-> [w EXCEPT !.stopped = TRUE]]
             ELSE [keep |-> TRUE, env_gain |-> w.fade_start_gain,
                   voice |-> [w EXCEPT !.fade_out_pos = @ + 1]]
    ELSE [keep |-> TRUE, env_gain |-> e,
          voice |-> [v EXCEPT !.fade_position = @ + 1]]

\* 4. fading, or one more frame of attack/sustain; e is the attack gain of
\* step 1
Envelope(v, e) ==
    IF v.is_fading_out
    THEN LET w == IF v.fade_out_pos = 0
                  THEN [v EXCEPT !.fade_start_gain = e]
                  ELSE v
         IN  IF ReleaseDone(w)
             THEN [keep |-> FALSE, env_gain |-> <<0, 1>>,
                   voice |-> [w EXCEPT !.stopped = TRUE]]
             ELSE [keep |-> TRUE,
                   env_gain |->
                       Times(w.fade_start_gain,
                             Frac(w.release_samples - w.fade_out_pos,
                                  w.release_samples)),
                   voice |-> [w EXCEPT !.fade_out_pos = @ + 1]]
    ELSE [keep |-> TRUE, env_gain |-> e,
          voice |-> [v EXCEPT !.fade_position = @ + 1]]

\* f64 as usize: the cast saturates.
AsUsize(x) == IF x < 0 THEN 0 ELSE Min(x, UsizeMax)

\* The sample of a buffer at a 0-based index.
At(buffer, idx) == buffer.data[idx + 1]

\* The mono branch of the mix.
MixMono(v, gain) ==
    LET data_len == Len(v.buffer.data)
        pos_idx == AsUsize(v.position \div Den)
        f == v.position % Den
    IN  IF pos_idx >= data_len
        THEN [keep |-> FALSE, panic |-> FALSE,
              voice |-> [v EXCEPT !.stopped = TRUE], sample |-> 0,
              left |-> <<0, 1>>, right |-> <<0, 1>>]
        ELSE LET s1 == At(v.buffer, pos_idx)
                 s2 == IF pos_idx + 1 < data_len
                       THEN At(v.buffer, pos_idx + 1)
                       ELSE 0
                 s_raw == 4 * (s1 * (Den - f) + s2 * f)
                 s == Times(Frac(s_raw, 4 * Den), gain)
             IN  [keep |-> TRUE, panic |-> FALSE,
                  voice |-> [v EXCEPT !.current_peak = Abs(s_raw),
                                      !.position = F64(@ + v.playback_rate)],
                  sample |-> s_raw, left |-> s, right |-> s]

\* The branch for two or more interleaved channels.  With pos_idx saturated
\* at usize::MAX, pos_idx + 1 overflows: the addition panics where overflow
\* is checked, and where it wraps to 0 the read of data[pos_idx] panics.
MixStereo(v, gain) ==
    LET data_len == Len(v.buffer.data)
        base_pos == (v.position \div (2 * Den)) * (2 * Den)
        pos_idx == AsUsize(base_pos \div Den)
        g == v.position - base_pos
        advanced == [v EXCEPT !.position = F64(@ + v.playback_rate * 2)]
    IN  IF pos_idx + 1 > UsizeMax
        THEN [keep |-> TRUE, panic |-> TRUE, voice |-> v, sample |-> 0,
              left |-> <<0, 1>>, right |-> <<0, 1>>]
        ELSE IF pos_idx + 1 < data_len
        THEN LET l1 == At(v.buffer, pos_idx)
                 l2 == IF pos_idx + 2 < data_len
                       THEN At(v.buffer, pos_idx + 2)
                       ELSE l1
                 l_raw == l1 * (2 * Den - g) + l2 * g
                 r1 == At(v.buffer, pos_idx + 1)
                 r2 == IF pos_idx + 3 < data_len
                       THEN At(v.buffer, pos_idx + 3)
                       ELSE r1
                 r_raw == r1 * (2 * Den - g) + r2 * g
             IN  [keep |-> TRUE, panic |-> FALSE,
                  voice |-> [advanced EXCEPT
                                !.current_peak = Abs(l_raw) + Abs(r_raw)],
                  sample |-> l_raw + r_raw,
                  left |-> Times(Frac(l_raw, 2 * Den), gain),
                  right |-> Times(Frac(r_raw, 2 * Den), gain)]
        ELSE [keep |-> TRUE, panic |-> FALSE, voice |-> advanced,
              sample |-> 0, left |-> <<0, 1>>, right |-> <<0, 1>>]

Mix(v, gain) ==
    IF v.buffer.channels = 1 THEN MixMono(v, gain)
    ELSE IF v.buffer.channels >= 2 THEN MixStereo(v, gain)
    ELSE [keep |-> TRUE, panic |-> FALSE, voice |-> v, sample |-> 0,
          left |-> <<0, 1>>, right |-> <<0, 1>>]

\* A loop check that lets the position sit on the loop end (> for >=).
LoopWrapStrict(v) ==
    IF ~v.is_fading_out /\ v.looping
       /\ (v.position > v.loop_end
           \/ v.position > Den * Len(v.buffer.data))
    THEN [v EXCEPT !.position = v.loop_start]
    ELSE v

\* A loop check that also wraps a voice that is fading.
LoopWrapAlsoFading(v) ==
    IF v.looping
       /\ (v.position >= v.loop_end
           \/ v.position >= Den * Len(v.buffer.data))
    THEN [v EXCEPT !.position = v.loop_start]
    ELSE v

\* A loop check that looks at the loop end only.
LoopWrapAtLoopEnd(v) ==
    IF ~v.is_fading_out /\ v.looping /\ v.position >= v.loop_end
    THEN [v EXCEPT !.position = v.loop_start]
    ELSE v

\* the loop check, after the position has advanced
LoopWrap(v) ==
    IF ~v.is_fading_out /\ v.looping
       /\ (v.position >= v.loop_end
           \/ v.position >= Den * Len(v.buffer.data))
    THEN [v EXCEPT !.position = v.loop_start]
    ELSE v

\* The closure of retain_mut for one voice and one frame: whether the voice
\* stays, the voice afterwards, its entry of frame_data and what it adds to
\* left and right.
ProcessVoice(v) ==
    IF v.stopped
    THEN [keep |-> FALSE, panic |-> FALSE, voice |-> v, sample |-> 0,
          left |-> <<0, 1>>, right |-> <<0, 1>>]
    ELSE LET v0 == [v EXCEPT !.current_peak = 0]
             e == EnvGain(v0)
             env == Envelope(NaturalRelease(StopArrival(v0)), e)
         IN  IF ~env.keep
             THEN [keep |-> FALSE, panic |-> FALSE, voice |-> env.voice,
                   sample |-> 0, left |-> <<0, 1>>, right |-> <<0, 1>>]
             ELSE LET gain == Times(<<env.voice.gain, 1>>, env.env_gain)
                      mixed == Mix(env.voice, gain)
                  IN  IF ~mixed.keep \/ mixed.panic
                      THEN mixed
                      ELSE [mixed EXCEPT !.voice = LoopWrap(@)]

\* A merge that keeps every sample.
MergeEntryUncapped(lv, key, peak, sample) ==
    LET old == IF key \in DOMAIN lv
               THEN lv[key]
               ELSE [peak |-> 0, samples |-> <<>>]
        new == [peak |-> Max(old.peak, peak),
                samples |-> Append(old.samples, sample)]
    IN  [k \in DOMAIN lv \cup {key} |-> IF k = key THEN new ELSE lv[k]]

\* A merge that keeps the peak of the voice merged last.
MergeEntryLastPeak(lv, key, peak, sample) ==
    LET old == IF key \in DOMAIN lv
               THEN lv[key]
               ELSE [peak |-> 0, samples |-> <<>>]
        new == [peak |-> peak,
                samples |-> IF Len(old.samples) < VisualCap
                            THEN Append(old.samples, sample)
                            ELSE old.samples]
    IN  [k \in DOMAIN lv \cup {key} |-> IF k = key THEN new ELSE lv[k]]

\* Merging frame_data into the levels map.
MergeEntry(lv, key, peak, sample) ==
    LET old == IF key \in DOMAIN lv
               THEN lv[key]
               ELSE [peak |-> 0, samples |-> <<>>]
        new == [peak |-> Max(old.peak, peak),
                samples |-> IF Len(old.samples) < VisualCap
                            THEN Append(old.samples, sample)
                            ELSE old.samples]
    IN  [k \in DOMAIN lv \cup {key} |-> IF k = key THEN new ELSE lv[k]]

RECURSIVE MergeLevels(_, _)
MergeLevels(lv, frame_data) ==
    IF frame_data = <<>>
    THEN lv
    ELSE MergeLevels(
             MergeEntry(lv, frame_data[1].voice.key,
                        frame_data[1].voice.current_peak,
                        frame_data[1].sample),
             Tail(frame_data))

\* What one frame leaves of the voice list: the entries of the kept voices.
FrameKept(vs) ==
    SelectSeq([i \in 1..Len(vs) |-> ProcessVoice(vs[i])], LAMBDA r : r.keep)

FrameVoices(vs) ==
    LET kept == FrameKept(vs) IN [i \in 1..Len(kept) |-> kept[i].voice]

\* The first voice of the list whose closure panics in this frame, or 0.
PanicAt(vs) ==
    IF \E i \in 1..Len(vs) : ProcessVoice(vs[i]).panic
    THEN CHOOSE i \in 1..Len(vs) :
             /\ ProcessVoice(vs[i]).panic
             /\ \A j \in 1..(i - 1) : ~ProcessVoice(vs[j]).panic
    ELSE 0

\* What retain_mut leaves of the list when the closure panics at voice i:
\* the voices kept so far, the voice at i as the closure left it, and the
\* voices after it untouched.
PanickedVoices(vs, i) ==
    FrameVoices(SubSeq(vs, 1, i - 1))
        \o <<ProcessVoice(vs[i]).voice>>
        \o SubSeq(vs, i + 1, Len(vs))

\* left and right after the retain_mut of one frame.
RECURSIVE SumLeft(_)
SumLeft(vs) ==
    IF vs = <<>> THEN <<0, 1>>
    ELSE Plus(ProcessVoice(vs[1]).left, SumLeft(Tail(vs)))

RECURSIVE SumRight(_)
SumRight(vs) ==
    IF vs = <<>> THEN <<0, 1>>
    ELSE Plus(ProcessVoice(vs[1]).right, SumRight(Tail(vs)))

\* The frame written to the hardware buffer.
FrameOutput(vs, master) ==
    IF DeviceChannels = 1
    THEN <<Times(Times(Plus(SumLeft(vs), SumRight(vs)), <<1, 2>>),
                 <<master, 1>>)>>
    ELSE <<Times(SumLeft(vs), <<master, 1>>),
           Times(SumRight(vs), <<master, 1>>)>>

NoOutput == <<>>

NoLevels == [k \in {} |-> 0]

(* ------------------------------------------------------- the state machine *)
\* What an operation returns to its caller: op names the operation.
Ok(op, value) == [op |-> op, status |-> "ok", value |-> value]
Err(op, message) == [op |-> op, status |-> message, value |-> <<>>]
Unit == <<>>
NoResult == [op |-> "none", status |-> "none", value |-> Unit]

\* What a lock() on the poisoned mutex makes of `?`: Err(e.to_string()).
Poisoned(op) == Err(op, "poisoned lock")

Init ==
    /\ sound_bank = [k \in {} |-> BufMono]
    /\ voices = <<>>
    /\ master_volume = InitMasterVolume
    /\ master_bpm = InitMasterBpm
    /\ levels = NoLevels
    /\ lock = "free"
    /\ result = NoResult
    /\ cb_pc = "idle"
    /\ cb_left = 0
    /\ decoding = {}
    /\ out = NoOutput

\* A control operation runs from taking the mutex to its return: the body is
\* one transaction on the engine state, and CtlReturn drops the guard.
\* A control operation that enters while the callback holds the mutex.
AcquireUnguarded ==
    /\ lock \in {"free", "cb"}
    /\ lock' = "ctl"
    /\ UNCHANGED <<cb_pc, cb_left>>

Acquire ==
    /\ lock = "free"
    /\ lock' = "ctl"
    /\ UNCHANGED <<cb_pc, cb_left>>

\* lock() on the poisoned mutex returns Err at once: the operation gives
\* `otherwise` to its caller and touches nothing.
LockFails(otherwise) ==
    /\ lock = "poisoned"
    /\ result = NoResult
    /\ result' = otherwise
    /\ UNCHANGED <<engine, lock, cb_pc, cb_left>>

\* load_sound, first half: the decode starts on a blocking task, outside the
\* mutex.
LoadStart(key, buffer, cap) ==
    /\ <<key, buffer>> \notin decoding
    /\ Cardinality(decoding) < cap
    /\ decoding' = decoding \cup {<<key, buffer>>}
    /\ UNCHANGED <<engine, lock, result, cb_pc, cb_left, out>>

\* A bank insert that keeps the entry the key already has.
BankInsertKeepFirst(bank, key, buffer) ==
    [k \in DOMAIN bank \cup {key} |->
        IF k \in DOMAIN bank THEN bank[k] ELSE buffer]

\* HashMap::insert
BankInsert(bank, key, buffer) ==
    [k \in DOMAIN bank \cup {key} |-> IF k = key THEN buffer ELSE bank[k]]

\* load_sound, second half: the decode is done, the buffer goes into the bank.
LoadSound(key, buffer) ==
    /\ <<key, buffer>> \in decoding
    /\ decoding' = decoding \ {<<key, buffer>>}
    /\ UNCHANGED out
    /\ \/ /\ Acquire
          /\ sound_bank' = BankInsert(sound_bank, key, buffer)
          /\ result' = Ok("load_sound", buffer.waveform)
          /\ UNCHANGED <<voices, master_volume, master_bpm, levels>>
       \/ LockFails(Poisoned("load_sound"))

GetBufferWaveform(key) ==
    /\ \/ /\ Acquire
          /\ result' = Ok("get_buffer_waveform",
                          IF key \in DOMAIN sound_bank
                          THEN sound_bank[key].waveform
                          ELSE <<>>)
          /\ UNCHANGED engine
       \/ LockFails(Ok("get_buffer_waveform", <<>>))
    /\ UNCHANGED <<decoding, out>>

PlaySound(key, params, cap) ==
    /\ Len(voices) < cap
    /\ \/ /\ Acquire
          /\ voices' = PlayVoices(voices, sound_bank, master_bpm, key, params)
          /\ result' = IF PlayResult(sound_bank, key) = "ok"
                        THEN Ok("play_sound", Unit)
                        ELSE Err("play_sound",
                                 PlayResult(sound_bank, key))
          /\ UNCHANGED <<sound_bank, master_volume, master_bpm, levels>>
       \/ LockFails(Poisoned("play_sound"))
    /\ UNCHANGED <<decoding, out>>

StopSound(key, eff) ==
    /\ \/ /\ Acquire
          /\ voices' = StopVoices(voices, key, eff)
          /\ result' = Ok("stop_sound", Unit)
          /\ UNCHANGED <<sound_bank, master_volume, master_bpm, levels>>
       \/ LockFails(Poisoned("stop_sound"))
    /\ UNCHANGED <<decoding, out>>

UpdateVoice(key, params) ==
    /\ \/ /\ Acquire
          /\ voices' = UpdateVoices(voices, key, params)
          /\ result' = Ok("update_voice", Unit)
          /\ UNCHANGED <<sound_bank, master_volume, master_bpm, levels>>
       \/ LockFails(Poisoned("update_voice"))
    /\ UNCHANGED <<decoding, out>>

\* stop_all, set_master_volume and set_master_bpm return (): what the
\* caller gets is the same with the mutex poisoned.
StopAll ==
    /\ \/ /\ Acquire
          /\ voices' = StopAllVoices(voices)
          /\ result' = Ok("stop_all", Unit)
          /\ UNCHANGED <<sound_bank, master_volume, master_bpm, levels>>
       \/ LockFails(Ok("stop_all", Unit))
    /\ UNCHANGED <<decoding, out>>

SetMasterVolume(volume) ==
    /\ \/ /\ Acquire
          /\ master_volume' = volume
          /\ result' = Ok("set_master_volume", Unit)
          /\ UNCHANGED <<sound_bank, voices, master_bpm, levels>>
       \/ LockFails(Ok("set_master_volume", Unit))
    /\ UNCHANGED <<decoding, out>>

SetMasterBpm(bpm) ==
    /\ \/ /\ Acquire
          /\ master_bpm' = bpm
          /\ result' = Ok("set_master_bpm", Unit)
          /\ UNCHANGED <<sound_bank, voices, master_volume, levels>>
       \/ LockFails(Ok("set_master_bpm", Unit))
    /\ UNCHANGED <<decoding, out>>

\* A LevelsResponse that leaves out the voices that are fading.
LevelsResponsePlayingOnly(lv, vs) ==
    LET playing == SelectSeq(vs, LAMBDA v : ~v.is_fading_out)
    IN  [data |-> lv,
         active_keys |-> [i \in 1..Len(playing) |-> playing[i].key]]

\* The LevelsResponse of get_levels.
LevelsResponse(lv, vs) ==
    [data |-> lv, active_keys |-> [i \in 1..Len(vs) |-> vs[i].key]]

GetLevels ==
    /\ \/ /\ Acquire
          /\ result' = Ok("get_levels", LevelsResponse(levels, voices))
          /\ UNCHANGED engine
       \/ LockFails(Ok("get_levels", LevelsResponse(NoLevels, <<>>)))
    /\ UNCHANGED <<decoding, out>>

\* The operation returns: its guard, when it has one, is dropped.
CtlReturn ==
    /\ \/ lock = "ctl" /\ lock' = "free"
       \/ lock = "poisoned" /\ result # NoResult /\ lock' = lock
    /\ result' = NoResult
    /\ UNCHANGED <<engine, cb_pc, cb_left, decoding, out>>

\* The device asks for a buffer: write_audio calls state_mutex.lock(), which
\* takes the mutex when it is free, returns Err when it is poisoned (the
\* callback then returns at once) and otherwise parks the audio thread until
\* the holder releases it.  n is the number of frames of the buffer.
CallbackFire(n) ==
    /\ cb_pc = "idle"
    /\ IF lock = "free"
       THEN /\ lock' = "cb"
            /\ cb_pc' = "running"
            /\ cb_left' = n
            /\ levels' = NoLevels
       ELSE IF lock = "poisoned"
       THEN UNCHANGED <<lock, levels, cb_left, cb_pc>>
       ELSE /\ cb_pc' = "blocked"
            /\ UNCHANGED <<lock, levels, cb_left>>
    /\ UNCHANGED <<sound_bank, voices, master_volume, master_bpm, result,
                   decoding, out>>

CallbackWake(n) ==
    /\ cb_pc = "blocked"
    /\ lock = "free"
    /\ lock' = "cb"
    /\ cb_pc' = "running"
    /\ cb_left' = n
    /\ levels' = NoLevels
    /\ UNCHANGED <<sound_bank, voices, master_volume, master_bpm, result,
                   decoding, out>>

\* One frame of the buffer: every voice through the retain_mut closure, then
\* the merge of frame_data into levels.  A panic of the closure unwinds the
\* audio thread with the guard held: the mutex is poisoned and the thread is
\* gone.  cap is the largest attack progress explored.
FrameStep(cap) ==
    /\ cb_pc = "running"
    /\ cb_left > 0
    /\ IF PanicAt(voices) = 0
       THEN /\ \A i \in 1..Len(FrameVoices(voices)) :
                   FrameVoices(voices)[i].fade_position <= cap
            /\ voices' = FrameVoices(voices)
            /\ levels' = MergeLevels(levels, FrameKept(voices))
            /\ out' = FrameOutput(voices, master_volume)
            /\ cb_left' = cb_left - 1
            /\ UNCHANGED <<lock, cb_pc>>
       ELSE /\ voices' = PanickedVoices(voices, PanicAt(voices))
            /\ lock' = "poisoned"
            /\ cb_pc' = "dead"
            /\ cb_left' = 0
            /\ UNCHANGED <<levels, out>>
    /\ UNCHANGED <<sound_bank, master_volume, master_bpm, result, decoding>>

Frame == FrameStep(MaxFadePos)

CallbackReturn ==
    /\ cb_pc = "running"
    /\ cb_left = 0
    /\ cb_pc' = "idle"
    /\ lock' = "free"
    /\ out' = NoOutput
    /\ UNCHANGED <<engine, result, cb_left, decoding>>

\* The steps of the engine under the inputs `in` of an environment: the
\* loads, plays, updates, stops, master values and buffer lengths it issues
\* and the number of simultaneous voices it reaches.
Next(in) ==
    \/ \E l \in in.loads : LoadStart(l[1], l[2], in.decodes)
    \/ \E l \in in.loads : LoadSound(l[1], l[2])
    \/ \E key \in in.keys : GetBufferWaveform(key)
    \/ \E key \in in.keys, params \in in.plays :
           PlaySound(key, params, in.voices)
    \/ \E key \in in.keys, eff \in in.releases : StopSound(key, eff)
    \/ \E key \in in.keys, params \in in.updates : UpdateVoice(key, params)
    \/ StopAll
    \/ \E volume \in in.volumes : SetMasterVolume(volume)
    \/ \E bpm \in in.bpms : SetMasterBpm(bpm)
    \/ GetLevels
    \/ CtlReturn
    \/ \E n \in in.frames : CallbackFire(n)
    \/ \E n \in in.frames : CallbackWake(n)
    \/ FrameStep(in.fades)
    \/ CallbackReturn

\* The whole control surface on two keys; this environment triggers a sample
\* only when no voice is active.
Surface ==
    [keys |-> {"a", "b"},
     loads |-> {<<"a", BufMono>>, <<"b", BufStereo>>},
     plays |-> {OneShot},
     updates |-> {Looped},
     releases |-> {NoRelease, 3},
     volumes |-> {2},
     bpms |-> {240},
     frames |-> 1..MaxBuf,
     fades |-> MaxFadePos,
     voices |-> 1,
     decodes |-> 1]

\* Polyphony: up to MaxVoices voices on two keys that hold the same sample;
\* updates resend the parameters of the play and the master values are set to
\* what they already are.
Poly ==
    [keys |-> {"a", "b"},
     loads |-> {<<"a", BufMono>>, <<"b", BufMono>>},
     plays |-> {OneShot},
     updates |-> {OneShot},
     releases |-> {NoRelease, 3},
     volumes |-> {InitMasterVolume},
     bpms |-> {InitMasterBpm},
     frames |-> 1..MaxBuf,
     fades |-> MaxFadePos,
     voices |-> MaxVoices,
     decodes |-> 1]

\* One key played monophonically (a sample is triggered only when no voice
\* is active), over every sample, parameter set, release and tempo.
Solo ==
    [keys |-> {"a"},
     loads |-> {<<"a", BufMono>>, <<"a", BufStereo>>},
     plays |-> {OneShot, Looped, Synced, LateStart, FarStart},
     updates |-> {OneShot, Looped},
     releases |-> {NoRelease, 1, 3},
     volumes |-> {InitMasterVolume},
     bpms |-> {InitMasterBpm, 240},
     frames |-> 1..MaxBuf,
     fades |-> MaxFadePos,
     voices |-> 1,
     decodes |-> 2]

\* Hardware buffers longer than the snapshot holds samples for, with up to
\* two looping voices on one key.
LongBuf == VisualCap + 2
Long ==
    [keys |-> {"a"},
     loads |-> {<<"a", BufMono>>},
     plays |-> {Looped},
     updates |-> {Looped},
     releases |-> {NoRelease},
     volumes |-> {InitMasterVolume},
     bpms |-> {InitMasterBpm},
     frames |-> {LongBuf},
     fades |-> LongBuf,
     voices |-> 2,
     decodes |-> 1]

\* Samples of every length around the whole multiples of WaveformPoints, in
\* one and two channels, each ending on its loudest sample.
Tone(n) == [i \in 1..n |-> IF i = n THEN -3 ELSE (i % 3) - 1]
WaveFrames ==
    {f * WaveformPoints + d : f \in 0..MaxFill, d \in {0, 1}}
WaveBuffers ==
    {DecodedBuffer(Tone(n), DeviceSR, 1) : n \in WaveFrames}
        \cup {DecodedBuffer(Tone(2 * (WaveformPoints + 1)), DeviceSR, 2)}
Wave ==
    [keys |-> {"a"},
     loads |-> {"a"} \X WaveBuffers,
     plays |-> {OneShot},
     updates |-> {OneShot},
     releases |-> {NoRelease},
     volumes |-> {InitMasterVolume},
     bpms |-> {InitMasterBpm},
     frames |-> {1},
     fades |-> MaxFadePos,
     voices |-> 1,
     decodes |-> 1]

\* One key played monophonically with one-shot and looping parameters, the
\* device asking for buffer after buffer.
Live ==
    [keys |-> {"a"},
     loads |-> {<<"a", BufMono>>, <<"a", BufStereo>>},
     plays |-> {OneShot, Synced, LateStart, FarStart, StuckStart},
     updates |-> {OneShot, LateStart},
     releases |-> {NoRelease, 1},
     volumes |-> {InitMasterVolume},
     bpms |-> {InitMasterBpm},
     frames |-> 1..MaxBuf,
     fades |-> MaxFadePos,
     voices |-> 1,
     decodes |-> 1]

\* One voice at a time, looping in every shape of loop.
Loops ==
    [keys |-> {"a"},
     loads |-> {<<"a", BufMono>>, <<"a", BufStereo>>},
     plays |-> {Looped, LoopedBack, LoopedWide},
     updates |-> {OneShot},
     releases |-> {NoRelease, 1},
     volumes |-> {InitMasterVolume},
     bpms |-> {InitMasterBpm, 240},
     frames |-> 1..MaxBuf,
     fades |-> MaxFadePos,
     voices |-> 1,
     decodes |-> 1]

\* The frame step of write_audio can be taken: ENABLED <<FrameStep(cap)>>_vars
\* written out (a frame step always changes cb_left or cb_pc).
FrameReady(cap) ==
    /\ cb_pc = "running"
    /\ cb_left > 0
    /\ PanicAt(voices) = 0
           => \A i \in 1..Len(FrameVoices(voices)) :
                  FrameVoices(voices)[i].fade_position <= cap

\* The device keeps calling write_audio, the callback and the control
\* operations run to their return.  The third conjunct is
\* WF_vars(FrameStep(Live.fades)) with its ENABLED replaced by FrameReady.
Running ==
    /\ WF_vars(\E n \in Live.frames : CallbackFire(n))
    /\ WF_vars(\E n \in Live.frames : CallbackWake(n))
    /\ \/ []<>~FrameReady(Live.fades)
       \/ []<><<FrameStep(Live.fades)>>_vars
    /\ WF_vars(CallbackReturn)
    /\ WF_vars(CtlReturn)

Spec == Init /\ [][Next(Surface)]_vars
LiveSpec == Init /\ [][Next(Live)]_vars /\ Running
WaveSpec == Init /\ [][Next(Wave)]_vars
LongSpec == Init /\ [][Next(Long)]_vars
LoopSpec == Init /\ [][Next(Loops)]_vars
PolySpec == Init /\ [][Next(Poly)]_vars
SoloSpec == Init /\ [][Next(Solo)]_vars

(* ------------------------------------------------------------ the claims *)
AllKeys == {"a", "b"}
AllParams ==
    {OneShot, Looped, Synced, LateStart, FarStart, StuckStart, LoopedBack,
     LoopedWide}
AllReleases == {NoRelease, 1, 3}

\* The voice of the next state that has the id of v, when there is one.
Survives(v) == v.id \in Ids(voices')
After(v) == voices'[CHOOSE i \in 1..Len(voices') : voices'[i].id = v.id]
Voices == {voices[i] : i \in 1..Len(voices)}

\* A frame that the callback carries through: no closure panics in it.
FrameDone == Frame /\ PanicAt(voices) = 0

\* C1: the audio thread never waits for the mutex: when a control operation
\* holds it as the callback fires, the callback returns at once.
C1_CallbackNeverWaits == cb_pc # "blocked"

\* C7: a play on a key that is not in the bank returns the not-found error
\* and changes nothing of the engine state.
C7_PlayUnknownKey ==
    [][\A key \in AllKeys, params \in AllParams :
          (PlaySound(key, params, MaxVoices) /\ key \notin DOMAIN sound_bank)
              => (result'.status = "Sound not found" /\ engine' = engine)]_vars

C7_Witness ==
    /\ lock = "ctl"
    /\ result.status = "Sound not found"
    /\ DOMAIN sound_bank # {}

\* C8: a play on a key of the bank appends exactly one voice, fresh (no
\* envelope progress, not stopped, not fading, no stop pending, at its loop
\* start, on the bank's buffer), and leaves every voice already in the list
\* as it was, those of the same key included.
C8_PlayAppendsOneVoice ==
    [][\A key \in AllKeys, params \in AllParams :
          (PlaySound(key, params, MaxVoices) /\ key \in DOMAIN sound_bank)
              => /\ result'.status = "ok"
                 /\ Len(voices') = Len(voices) + 1
                 /\ \A i \in 1..Len(voices) : voices'[i] = voices[i]
                 /\ LET w == voices'[Len(voices')]
                    IN  /\ w.key = key
                        /\ w.buffer = sound_bank[key]
                        /\ w.fade_position = 0
                        /\ w.fade_out_pos = 0
                        /\ ~w.stopped
                        /\ ~w.is_fading_out
                        /\ ~w.stop_command
                        /\ w.position = w.loop_start]_vars

\* Two voices of one key, the first one already playing, the second one new.
C8_Witness ==
    /\ lock = "ctl"
    /\ Len(voices) = 2
    /\ voices[1].key = voices[2].key
    /\ voices[1].fade_position > 0
    /\ voices[2].fade_position = 0
    /\ ~voices[2].is_fading_out

\* C3: a stop, with or without a release, leaves every voice that is already
\* fading exactly as it was.
C3_StopLeavesFadingVoices ==
    [][\A key \in AllKeys, eff \in AllReleases :
          StopSound(key, eff)
              => /\ Len(voices') = Len(voices)
                 /\ \A i \in 1..Len(voices) :
                        voices[i].is_fading_out => voices'[i] = voices[i]]_vars

\* A stop has reached a key while one of its voices was part-way through its
\* fade: the other voice of the key has the stop pending.
C3_Witness ==
    \E i, j \in 1..Len(voices) :
        /\ voices[i].key = voices[j].key
        /\ voices[i].is_fading_out
        /\ voices[i].fade_out_pos > 0
        /\ ~voices[i].stop_command
        /\ voices[j].stop_command
        /\ voices[j].custom_release_set
        /\ ~voices[j].is_fading_out

\* A mono voice whose position has left its buffer: the mix retires it.
PastBufferEnd(v) ==
    v.buffer.channels = 1 /\ v.position \div Den >= Len(v.buffer.data)

\* A stop without a release is pending on, or has been handled for, a voice
\* that is part-way through its attack.
SymmetricCase(v) ==
    /\ v.stop_command
    /\ ~v.custom_release_set
    /\ 0 < v.fade_position
    /\ v.fade_position < v.attack_samples

\* C2 as stated: a voice stopped without a release at attack progress p,
\* 0 < p < attack_samples, has the release length p from the frame that
\* handles the stop on, and leaves the list after exactly p faded frames.
C2_FadeIsElapsedAttack ==
    [][FrameDone =>
          \A v \in Voices :
              SymmetricCase(v)
                  => IF Survives(v)
                     THEN After(v).release_samples = v.fade_position
                     ELSE v.is_fading_out
                          /\ v.fade_out_pos = v.fade_position]_vars

\* C2: when the callback handles a stop without a release on a voice that is
\* not fading yet, at attack progress p with 0 < p < attack_samples, the
\* release length becomes p and the fade counts 1, 2, .., p; the voice leaves
\* the list after exactly p faded frames, or earlier when its position leaves
\* a mono buffer.
C2_SymmetricFade ==
    [][FrameDone =>
          \A v \in Voices :
              (/\ SymmetricCase(v)
               /\ v.is_fading_out => v.release_samples = v.fade_position)
                  => IF Survives(v)
                     THEN /\ After(v).is_fading_out
                          /\ After(v).release_samples = v.fade_position
                          /\ After(v).fade_position = v.fade_position
                          /\ After(v).fade_out_pos =
                                 (IF v.is_fading_out THEN v.fade_out_pos ELSE 0)
                                     + 1
                          /\ After(v).fade_out_pos <= v.fade_position
                     ELSE \/ v.is_fading_out
                             /\ v.fade_out_pos = v.fade_position
                          \/ PastBufferEnd(v)]_vars

\* A voice stopped two frames into an attack of three has faded for two
\* frames, which is none of the release lengths a play can give.
C2_Witness ==
    \E v \in Voices :
        /\ SymmetricCase(v)
        /\ v.is_fading_out
        /\ v.fade_position = 2
        /\ v.release_samples = 2
        /\ v.fade_out_pos = 2

\* The index the mix reads first: the sample of a mono buffer, the left
\* sample of the frame of an interleaved one.
BaseIndex(v) ==
    IF v.buffer.channels = 1
    THEN v.position \div Den
    ELSE (v.position \div (2 * Den)) * 2

\* C4: after a frame the position of every voice of the list is at most the
\* length of its buffer, and a voice whose base index is outside its buffer
\* as the frame mixes it is not in the list after the frame.
C4_PositionInBuffer ==
    [][FrameDone =>
          \A v \in Voices :
              /\ Survives(v)
                    => After(v).position <= Den * Len(v.buffer.data)
              /\ BaseIndex(v) >= Len(v.buffer.data) => ~Survives(v)]_vars

\* The frames a fading voice has left before its release is over.
FadeLeft(v) == v.release_samples - v.fade_out_pos

\* C9: a stop marks the voices of its key that are not fading and leaves the
\* voices of the other keys as they were; the first frame that processes a
\* marked voice starts its fade (or removes it); a fading voice stays fading,
\* each frame uses up one frame of its release, and it is out of the list
\* once the release is used up, so after at most release_samples frames.
C9_StopFadesWithinRelease ==
    [][/\ \A key \in AllKeys, eff \in AllReleases :
              StopSound(key, eff)
                  => /\ Len(voices') = Len(voices)
                     /\ \A i \in 1..Len(voices) :
                            /\ voices[i].key # key => voices'[i] = voices[i]
                            /\ (voices[i].key = key /\ ~voices[i].is_fading_out)
                                   => /\ voices'[i].stop_command
                                      /\ ~voices'[i].is_fading_out
       /\ FrameDone =>
              \A v \in Voices :
                  Survives(v)
                      => /\ (v.stop_command /\ ~v.is_fading_out)
                                => /\ After(v).is_fading_out
                                   /\ After(v).fade_out_pos = 1
                                   /\ FadeLeft(After(v)) >= 0
                         /\ v.is_fading_out
                                => /\ After(v).release_samples
                                          = v.release_samples
                                   /\ FadeLeft(After(v)) = FadeLeft(v) - 1
                                   /\ FadeLeft(After(v)) >= 0
       /\ \A v \in Voices :
              (v.is_fading_out /\ Survives(v))
                  => /\ After(v).is_fading_out
                     /\ FadeLeft(After(v)) <= FadeLeft(v)]_vars

\* The stopped voice of one key has used up its release while the voice of
\* the other key plays on, unmarked.
C9_Witness ==
    \E i, j \in 1..Len(voices) :
        /\ voices[i].key # voices[j].key
        /\ voices[i].stop_command
        /\ voices[i].is_fading_out
        /\ voices[i].release_samples > 0
        /\ voices[i].fade_out_pos = voices[i].release_samples
        /\ ~voices[j].stop_command
        /\ ~voices[j].is_fading_out
        /\ voices[j].fade_position > 0

\* What a stop with the release eff does: the voices of the key that are not
\* fading get the release eff in device samples, flagged as the caller's.
ExplicitStop ==
    \A key \in AllKeys, eff \in AllReleases \ {NoRelease} :
        (StopSound(key, eff) /\ lock = "free")
            => \A i \in 1..Len(voices) :
                   (voices[i].key = key /\ ~voices[i].is_fading_out)
                       => /\ voices'[i].release_samples
                                 = (eff * DeviceSR) \div Den
                          /\ voices'[i].custom_release_set
                          /\ voices'[i].stop_command

\* C10 as stated: a stop with a release R sets the release length to R in
\* device samples; the frame that handles the stop keeps it, inside the
\* attack too, and the voice leaves the list after exactly R faded frames.
C10_FadeLastsExactlyR ==
    [][/\ ExplicitStop
       /\ FrameDone =>
              \A v \in Voices :
                  (v.stop_command /\ v.custom_release_set)
                      => IF Survives(v)
                         THEN /\ After(v).is_fading_out
                              /\ After(v).release_samples = v.release_samples
                         ELSE v.fade_out_pos = v.release_samples]_vars

\* C10: a stop with a release R sets the release length to R in device
\* samples; the frame that handles the stop keeps it, inside the attack too,
\* the fade counts 1, 2, .., R, and the voice leaves the list after exactly R
\* faded frames, or earlier when its position leaves a mono buffer.
C10_ExplicitRelease ==
    [][/\ ExplicitStop
       /\ FrameDone =>
              \A v \in Voices :
                  (v.stop_command /\ v.custom_release_set)
                      => IF Survives(v)
                         THEN /\ After(v).is_fading_out
                              /\ After(v).release_samples = v.release_samples
                              /\ After(v).fade_out_pos = v.fade_out_pos + 1
                              /\ After(v).fade_out_pos <= v.release_samples
                         ELSE \/ v.fade_out_pos = v.release_samples
                              \/ PastBufferEnd(v)]_vars

\* A voice stopped inside its attack with a release longer than the elapsed
\* attack has faded for the whole of that release.
C10_Witness ==
    \E v \in Voices :
        /\ v.stop_command
        /\ v.custom_release_set
        /\ v.is_fading_out
        /\ 0 < v.fade_position
        /\ v.fade_position < v.attack_samples
        /\ v.release_samples > v.fade_position
        /\ v.fade_out_pos = v.release_samples

\* One frame of a buffer in units of position, and what the mix adds to
\* the position in one output frame.
Stride(v) == Den * (IF v.buffer.channels = 1 THEN 1 ELSE 2)
Advance(v) == v.playback_rate * (IF v.buffer.channels = 1 THEN 1 ELSE 2)

\* A looping voice that the next frame leaves out of every fade.
LoopingOn(v) == v.looping /\ ~v.is_fading_out /\ ~v.stop_command

\* On a frame of the buffer, inside a loop that lies inside the buffer.
InsideLoop(v) ==
    /\ v.loop_start <= v.position
    /\ v.position < v.loop_end
    /\ v.loop_end <= Den * Len(v.buffer.data)
    /\ v.position % Stride(v) = 0

\* C5 as stated: a looping voice that is not fading synthesizes the frames
\* of [loop_start, loop_end) one after the other: after the frame at
\* position p comes the next frame of the buffer, or loop_start when that
\* one is at or past loop_end.
C5_EveryPositionOncePerPass ==
    [][FrameDone =>
          \A v \in Voices :
              (LoopingOn(v) /\ InsideLoop(v) /\ Survives(v))
                  => After(v).position =
                         IF v.position + Stride(v) >= v.loop_end
                         THEN v.loop_start
                         ELSE v.position + Stride(v)]_vars

\* C5: a looping voice that is not fading is back at loop_start after
\* exactly the frame whose advance reaches or passes loop_end or the buffer
\* end, whatever the overshoot, and is at the advanced position after every
\* other frame; a voice that advances one frame of the buffer per output
\* frame synthesizes the frames of [loop_start, loop_end) one after the
\* other.
C5_LoopWrap ==
    [][FrameDone =>
          \A v \in Voices :
              (LoopingOn(v) /\ Survives(v))
                  => /\ After(v).position =
                            IF \/ v.position + Advance(v) >= v.loop_end
                               \/ v.position + Advance(v)
                                      >= Den * Len(v.buffer.data)
                            THEN v.loop_start
                            ELSE v.position + Advance(v)
                     /\ (InsideLoop(v) /\ Advance(v) = Stride(v))
                            => After(v).position =
                                   IF v.position + Stride(v) >= v.loop_end
                                   THEN v.loop_start
                                   ELSE v.position + Stride(v)]_vars

\* A looping voice at unit rate is back at its loop start after a whole
\* pass of three frames.
C5_Witness ==
    \E v \in Voices :
        /\ LoopingOn(v)
        /\ InsideLoop(v)
        /\ Advance(v) = Stride(v)
        /\ v.position = v.loop_start
        /\ v.loop_end - v.loop_start = 3 * Stride(v)
        /\ v.fade_position >= 3

\* A one-shot voice that only its natural release can put into a fade.
NaturalCase(v) ==
    /\ ~v.looping
    /\ ~v.is_fading_out
    /\ ~v.stop_command
    /\ v.playback_rate > 0

\* The distance to the playback end, and the release window: the distance,
\* in device frames, is at most release_samples.
Remaining(v) == v.loop_end - v.position
InWindow(v) == Remaining(v) <= v.release_samples * Advance(v)

\* C6: the natural release of a one-shot voice begins in the first
\* frame in which the distance to the playback end, in device frames, is at
\* most release_samples, and, whatever the start position and the release
\* length, the release_samples frames of the fade all lie before loop_end.
C6_ReleaseEndsAtPlaybackEnd ==
    [][FrameDone =>
          \A v \in Voices :
              NaturalCase(v)
                  => /\ Survives(v) => (After(v).is_fading_out <=> InWindow(v))
                     /\ (InWindow(v) /\ v.release_samples > 0)
                            => v.position
                                   + (v.release_samples - 1) * Advance(v)
                                   < v.loop_end]_vars

Retuned == {"gain", "looping", "loop_start", "loop_end"}

\* C12: an update gives the voices of its key the gain, the loop flag and
\* the loop bounds of its parameters and leaves every other field of them,
\* every voice of another key, the bank, the master values and the snapshot
\* as they were.
C12_UpdateRetunesOnly ==
    [][\A key \in AllKeys, params \in AllParams :
          UpdateVoice(key, params)
              => /\ Len(voices') = Len(voices)
                 /\ \A i \in 1..Len(voices) :
                        LET v == voices[i]
                            w == voices'[i]
                        IN  IF v.key = key
                            THEN /\ w.gain = params.volume
                                 /\ w.looping = params.looping
                                 /\ w.loop_start
                                        = params.start_time
                                              * v.buffer.sample_rate
                                              * v.buffer.channels
                                 /\ w.loop_end
                                        = params.end_time
                                              * v.buffer.sample_rate
                                              * v.buffer.channels
                                 /\ \A f \in DOMAIN v \ Retuned : w[f] = v[f]
                            ELSE w = v
                 /\ UNCHANGED <<sound_bank, master_volume, master_bpm,
                                levels>>]_vars

\* An update has just made a loop of a one-shot voice that is part-way
\* through its sample.
C12_Witness ==
    /\ lock = "ctl"
    /\ \E v \in Voices :
           /\ v.looping
           /\ v.gain = Looped.volume
           /\ v.release_samples = ToDeviceSamples(OneShot.release)
           /\ v.position > v.loop_start
           /\ v.fade_position > 0

AllLoads == AllKeys \X Buffers

\* C13: a load changes nothing while it decodes; when its decode is done it
\* makes its buffer the bank entry of its key, whatever entry the key had
\* and whichever load started first, and leaves the other entries and every
\* voice as they were; a voice has the same buffer for as long as it is in
\* the list; a play takes the entry the bank has at the time of the play.
C13_LoadReplacesEntry ==
    [][/\ \A l \in AllLoads :
              LoadStart(l[1], l[2], Cardinality(AllLoads))
                  => engine' = engine
       /\ \A l \in AllLoads :
              (LoadSound(l[1], l[2]) /\ lock = "free")
                  => /\ DOMAIN sound_bank' = DOMAIN sound_bank \cup {l[1]}
                     /\ sound_bank'[l[1]] = l[2]
                     /\ \A k \in DOMAIN sound_bank \ {l[1]} :
                            sound_bank'[k] = sound_bank[k]
                     /\ voices' = voices
       /\ \A v \in Voices : Survives(v) => After(v).buffer = v.buffer
       /\ \A key \in AllKeys, params \in AllParams :
              (/\ PlaySound(key, params, MaxVoices)
               /\ lock = "free"
               /\ key \in DOMAIN sound_bank)
                  => voices'[Len(voices')].buffer = sound_bank[key]]_vars

\* The load of the stereo sample has replaced the entry of the key while a
\* voice is part-way through the mono sample it was played on and
\* another load of the key is still decoding.
C13_Witness ==
    /\ lock = "ctl"
    /\ "a" \in DOMAIN sound_bank
    /\ sound_bank["a"] = BufStereo
    /\ decoding = {<<"a", BufMono>>}
    /\ \E v \in Voices :
           /\ v.key = "a"
           /\ v.buffer = BufMono
           /\ v.fade_position > 0

\* The keys a sequence of keys names.
Range(seq) == {seq[i] : i \in 1..Len(seq)}

\* C14 as stated: get_levels returns the snapshot and, as active keys, the
\* keys that have a voice in the list, each of them once, and changes
\* nothing of the engine state.
C14_ActiveKeysOnce ==
    [][(GetLevels /\ lock = "free")
          => LET r == result'.value
             IN  /\ r.data = levels
                 /\ Range(r.active_keys) = {v.key : v \in Voices}
                 /\ \A i, j \in 1..Len(r.active_keys) :
                        r.active_keys[i] = r.active_keys[j] => i = j
                 /\ engine' = engine]_vars

\* C14: get_levels returns the snapshot and, as active keys, the keys of the
\* voices of the list in the order of the list, one entry for each voice:
\* the keys named are exactly the keys that have a voice in the list, fading
\* ones included, and a key with n voices is named n times; nothing of the
\* engine state changes.
C14_ActiveKeysPerVoice ==
    [][(GetLevels /\ lock = "free")
          => LET r == result'.value
             IN  /\ r.data = levels
                 /\ Range(r.active_keys) = {v.key : v \in Voices}
                 /\ Len(r.active_keys) = Len(voices)
                 /\ \A i \in 1..Len(voices) : r.active_keys[i] = voices[i].key
                 /\ engine' = engine]_vars

\* get_levels has returned one key twice, for a playing and a fading voice,
\* along with a snapshot that is not empty.
C14_Witness ==
    /\ result.op = "get_levels"
    /\ result.value.active_keys = <<"a", "a">>
    /\ result.value.data # NoLevels
    /\ \E v \in Voices : v.is_fading_out
    /\ \E v \in Voices : ~v.is_fading_out

\* C15: the snapshot is empty when the callback starts on a buffer; a frame
\* adds to it the keys of the voices it has mixed, and no other key; nothing
\* outside the callback writes it; no entry ever holds more than VisualCap
\* samples, however long the buffer and however many voices share the key.
C15_SnapshotOfThisBuffer ==
    /\ [](\A k \in DOMAIN levels : Len(levels[k].samples) <= VisualCap)
    /\ [][/\ (cb_pc # "running" /\ cb_pc' = "running") => levels' = NoLevels
          /\ FrameStep(LongBuf)
                 => \A k \in AllKeys :
                        k \in DOMAIN levels'
                            <=> \/ k \in DOMAIN levels
                                \/ \E v \in Voices : v.key = k /\ Survives(v)
          /\ lock' # "cb" => levels' = levels]_vars

\* A buffer of more than VisualCap frames is done, with two voices of the
\* key mixed in every frame of it: the entry of the key is full.
C15_Witness ==
    /\ cb_pc = "running"
    /\ cb_left = 0
    /\ Len(voices) = 2
    /\ \A v \in Voices : v.key = "a" /\ v.fade_position >= LongBuf
    /\ "a" \in DOMAIN levels
    /\ Len(levels["a"].samples) = VisualCap

ControlOps ==
    {"load_sound", "play_sound", "stop_sound", "update_voice", "stop_all",
     "set_master_volume", "set_master_bpm", "get_levels",
     "get_buffer_waveform"}

\* C16: with the mutex poisoned, whatever control operation is called
\* returns the failure of the lock to its caller.
C16_PoisonPropagates ==
    [][(lock = "poisoned" /\ result = NoResult /\ result'.op \in ControlOps)
          => result'.status = "poisoned lock"]_vars

\* The advance of the cursor of a tempo-synced voice in one frame at the
\* tempo bpm.
SyncedAdvance(v, bpm) ==
    ((Den * v.buffer.sample_rate * bpm) \div (DeviceSR * v.sample_bpm))
        * (IF v.buffer.channels = 1 THEN 1 ELSE 2)

TempoSynced(v) == v.sync /\ v.sample_bpm > 0

\* C17: the callback applies the master values of the moment to the voices
\* that are playing: every frame it writes is the mix scaled by the master
\* volume, and it moves the cursor of every tempo-synced voice at the rate
\* the master tempo gives.
C17_MasterValuesReachPlayingVoices ==
    [][FrameDone
          => /\ out' = [c \in DOMAIN out' |->
                           Times(FrameOutput(voices, 1)[c],
                                 <<master_volume, 1>>)]
             /\ \A v \in Voices :
                    (Survives(v) /\ TempoSynced(v) /\ ~v.looping)
                        => After(v).position
                               = v.position + SyncedAdvance(v, master_bpm)]_vars

\* The frames of a decoded buffer.
FramesOf(b) == Len(b.data) \div b.channels

\* The buckets behind the entries of the waveform of b lie end to end from
\* the first sample to the last one.
BucketsCover(b) ==
    LET last == Len(b.waveform) - 1
    IN  /\ b.data # <<>> =>
               /\ last >= 0
               /\ BucketStart(b.data, b.channels, 0) = 0
               /\ BucketEnd(b.data, b.channels, last) = Len(b.data)
        /\ \A i \in 0..(last - 1) :
               BucketEnd(b.data, b.channels, i)
                   = BucketStart(b.data, b.channels, i + 1)

\* C18: the waveform of a decoded sequence of N frames has min(400, N)
\* entries, its buckets partition the whole sequence (every sample lies in
\* exactly one bucket) and each entry is the largest magnitude of its bucket.
C18_WaveformPartitions ==
    \A l \in decoding :
        LET b == l[2]
        IN  /\ Len(b.waveform) = Min(WaveformPoints, FramesOf(b))
            /\ BucketsCover(b)
            /\ \A i \in 0..(Len(b.waveform) - 1) :
                   b.waveform[i + 1]
                       = PeakOf(b.data, BucketStart(b.data, b.channels, i),
                                BucketEnd(b.data, b.channels, i))

NoVoiceOf(key) == \A v \in Voices : v.key # key

\* C19: on a mutex that can be taken, a stop or an update of a key that has
\* no voice in the list (in the bank or not) returns success and leaves the
\* engine state as it was, and the waveform asked for a key that is not in
\* the bank comes back as the empty sequence.
C19_MisuseIsHarmless ==
    [][\A key \in AllKeys :
          /\ \A eff \in AllReleases :
                 (StopSound(key, eff) /\ lock = "free" /\ NoVoiceOf(key))
                     => (result' = Ok("stop_sound", Unit) /\ engine' = engine)
          /\ \A params \in AllParams :
                 (UpdateVoice(key, params) /\ lock = "free" /\ NoVoiceOf(key))
                     => (result' = Ok("update_voice", Unit)
                         /\ engine' = engine)
          /\ (GetBufferWaveform(key) /\ lock = "free"
                  /\ key \notin DOMAIN sound_bank)
                 => (result' = Ok("get_buffer_waveform", <<>>)
                     /\ engine' = engine)]_vars

\* A stop of a key that is not in the bank has returned while a voice of the
\* other key plays on, no stop pending.
C19_Witness ==
    /\ lock = "ctl"
    /\ result = Ok("stop_sound", Unit)
    /\ DOMAIN sound_bank = {"a"}
    /\ Len(voices) = 1
    /\ voices[1].key = "a"
    /\ ~voices[1].stop_command
    /\ ~voices[1].is_fading_out
    /\ voices[1].fade_position > 0

\* C20: only a play that succeeds adds a voice to the list (exactly one) and
\* only a frame of the callback takes voices out of it; every other step
\* keeps the voices that are there, and a stop or an update leaves the
\* voices of the other keys as they were.
C20_VoicesComeAndGo ==
    [][/\ Ids(voices') \ Ids(voices) # {}
          => /\ \E key \in AllKeys, params \in AllParams :
                    PlaySound(key, params, MaxVoices)
             /\ result' = Ok("play_sound", Unit)
             /\ Len(voices') = Len(voices) + 1
       /\ Ids(voices) \ Ids(voices') # {} => Frame
       /\ ~Frame => Len(voices') >= Len(voices)
       /\ \A key \in AllKeys :
              ((\E eff \in AllReleases : StopSound(key, eff))
                  \/ (\E params \in AllParams : UpdateVoice(key, params)))
                 => /\ Len(voices') = Len(voices)
                    /\ \A i \in 1..Len(voices) :
                           voices[i].key # key => voices'[i] = voices[i]]_vars

\* A stop of "b" has just marked the voice of "b" and left the voice of "a",
\* which plays on.
C20_Witness ==
    /\ lock = "ctl"
    /\ result = Ok("stop_sound", Unit)
    /\ \E v \in Voices : v.key = "a" /\ ~v.stop_command /\ v.fade_position > 0
    /\ \E v \in Voices : v.key = "b" /\ v.stop_command /\ ~v.is_fading_out

\* C21: the callback never panics: whatever voices play, update, stop,
\* stop-all and load have put in the list, every frame reads the buffers
\* inside their bounds and the audio thread lives on.
C21_CallbackNeverPanics == cb_pc # "dead"

\* The frame just written is silent.
Silence == <<<<0, 1>>, <<0, 1>>>>

\* The visual sample the frame recorded for a key: the interpolated sample
\* of its voice before any gain, in units of 1/(4 * Den).
LastSample(key) == levels'[key].samples[Len(levels'[key].samples)]

\* The frame applied the envelope gain g to v, the only voice of the list:
\* left + right is twice the visual sample times the gains.
GainIs(v, g) ==
    Plus(out'[1], out'[2])
        = Times(<<2 * master_volume * v.gain, 1>>,
                Times(g, Frac(LastSample(v.key), 4 * Den)))

\* What C22 says of the frames of a fade, but for the way a fading voice
\* leaves the list.
FadeFrames ==
    /\ \A i \in 1..Len(voices') :
           voices'[i].is_fading_out
               => voices'[i].fade_out_pos <= voices'[i].release_samples
    /\ FrameDone =>
           \A v \in Voices :
               /\ (v.is_fading_out /\ v.fade_out_pos >= v.release_samples)
                      => ~Survives(v)
               /\ (~v.is_fading_out /\ v.stop_command
                       /\ v.release_samples = 0
                       /\ (v.custom_release_set
                              \/ v.fade_position >= v.attack_samples))
                      => ~Survives(v)
               /\ (~Survives(v) /\ Len(voices) = 1) => out' = Silence
               /\ (Survives(v) /\ After(v).is_fading_out)
                      => LET w == After(v)
                             k == w.fade_out_pos - 1
                         IN  /\ k = IF v.is_fading_out
                                    THEN v.fade_out_pos
                                    ELSE 0
                             /\ k < w.release_samples
                             /\ (v.is_fading_out /\ v.fade_out_pos > 0)
                                    => /\ w.fade_start_gain = v.fade_start_gain
                                       /\ w.release_samples = v.release_samples
                             /\ Len(voices) = 1
                                    => GainIs(v, Times(w.fade_start_gain,
                                                      Frac(w.release_samples - k,
                                                           w.release_samples)))

\* C22 as stated: the gain of the k-th faded frame is fade_start_gain *
\* (1 - k / release_samples), a voice with no release is removed without a
\* sample, fade progress never exceeds release_samples, and a fading voice
\* is removed in the frame that finds k >= release_samples, no sooner.
C22_RemovedWhenFadeIsOver ==
    [][/\ FadeFrames
       /\ FrameDone =>
              \A v \in Voices :
                  (v.is_fading_out /\ ~Survives(v))
                      => v.fade_out_pos >= v.release_samples]_vars

\* C22: the gain of the k-th faded frame is fade_start_gain * (1 - k /
\* release_samples), a voice with no release is removed without a sample,
\* fade progress never exceeds release_samples, and a fading voice is
\* removed in the frame that finds k >= release_samples, or sooner when its
\* position has left a mono buffer.
C22_FadeGain ==
    [][/\ FadeFrames
       /\ FrameDone =>
              \A v \in Voices :
                  (v.is_fading_out /\ ~Survives(v))
                      => \/ v.fade_out_pos >= v.release_samples
                         \/ PastBufferEnd(v)]_vars

\* The third frame of a fade of three has just sounded at a third of the
\* start gain.
C22_Witness ==
    /\ cb_pc = "running"
    /\ out # NoOutput
    /\ out # Silence
    /\ \E v \in Voices :
           /\ v.is_fading_out
           /\ v.release_samples = 3
           /\ v.fade_out_pos = 3

\* The attack gain at the envelope progress of v.
AttackGain(v) ==
    IF v.fade_position < v.attack_samples
    THEN Frac(v.fade_position, v.attack_samples)
    ELSE <<1, 1>>

\* C23: a frame that leaves a voice out of every fade adds one to its
\* envelope progress and sounds it at progress / attack_samples below
\* attack_samples and at 1 from there on; the first frame of a fade, begun
\* by a stop, a stop-all or the natural release, sounds the voice at that
\* same attack gain and takes it as the start gain of the fade.
C23_AttackGainThenNoJump ==
    [][FrameDone =>
          \A v \in Voices :
              Survives(v)
                  => LET w == After(v)
                     IN  IF ~w.is_fading_out
                         THEN /\ w.fade_position = v.fade_position + 1
                              /\ Len(voices) = 1 => GainIs(v, AttackGain(v))
                         ELSE (~v.is_fading_out \/ v.fade_out_pos = 0)
                                  => /\ w.fade_position = v.fade_position
                                     /\ w.fade_start_gain = AttackGain(v)
                                     /\ w.fade_out_pos = 1
                                     /\ Len(voices) = 1
                                            => GainIs(v, AttackGain(v))]_vars

\* A stop-all caught a voice a third of the way into its attack: the first
\* frame of the fade has sounded at a third.
C23_Witness ==
    /\ cb_pc = "running"
    /\ out # NoOutput
    /\ out # Silence
    /\ \E v \in Voices :
           /\ v.is_fading_out
           /\ ~v.stop_command
           /\ v.looping
           /\ v.fade_out_pos = 1
           /\ v.fade_position = 1
           /\ v.attack_samples = 3
           /\ v.fade_start_gain = <<1, 3>>

\* The index of the first sample of the frame the position of v lies in,
\* and the samples of one frame of its buffer.
BaseOf(v) ==
    IF v.buffer.channels = 1
    THEN v.position \div Den
    ELSE 2 * (v.position \div (2 * Den))
Width(v) == IF v.buffer.channels = 1 THEN 1 ELSE 2

\* The frame at the base index is whole and inside the buffer, the next
\* frame is not.
WindowPastEnd(v) ==
    /\ v.position >= 0
    /\ BaseOf(v) + Width(v) - 1 < Len(v.buffer.data)
    /\ BaseOf(v) + 2 * Width(v) - 1 >= Len(v.buffer.data)

\* The visual sample of the frame at the base index, held: what the
\* interpolation gives when its second point repeats the first.
HeldSample(v) ==
    IF v.buffer.channels = 1
    THEN 4 * Den * At(v.buffer, BaseOf(v))
    ELSE 2 * Den * (At(v.buffer, BaseOf(v)) + At(v.buffer, BaseOf(v) + 1))

\* C24: when the second interpolation point of a voice would lie past the
\* end of its buffer and the base index is in range, the frame interpolates
\* towards the sample at the base index itself, in one channel or more.
C24_NearestSampleAtTheEnd ==
    [][FrameDone =>
          \A v \in Voices :
              (Survives(v) /\ Len(voices) = 1 /\ WindowPastEnd(v))
                  => LastSample(v.key) = HeldSample(v)]_vars

\* The voice list in another order.
Orders == {p \in [1..Len(voices) -> 1..Len(voices)] :
              \A i, j \in 1..Len(voices) : p[i] = p[j] => i = j}
Reordered(p) == [i \in 1..Len(voices) |-> voices[p[i]]]

\* What a frame would write and leave, had the list been in the order p.
OutputOf(p) == FrameOutput(Reordered(p), master_volume)
VoicesOf(p) == Range(FrameVoices(Reordered(p)))
LevelsOf(p) == MergeLevels(levels, FrameKept(Reordered(p)))

\* The entries of a sequence with their multiplicities.
Counted(seq) ==
    [x \in Range(seq) |-> Cardinality({i \in DOMAIN seq : seq[i] = x})]

\* C25 as stated: in whatever order the list holds its voices, a frame
\* writes the same output, leaves the same voices and the same snapshot:
\* the same peak and the same list of samples for every key.
C25_OrderIsIrrelevant ==
    [][FrameDone =>
          \A p \in Orders :
              /\ OutputOf(p) = out'
              /\ VoicesOf(p) = Range(voices')
              /\ LevelsOf(p) = levels']_vars

\* C25: in whatever order the list holds its voices, a frame writes the
\* same output, leaves the same voices, and gives every key the same peak
\* and the same samples as many times each; the order of the samples of a
\* key follows the order of its voices.
C25_OrderKeepsAllButSampleOrder ==
    [][FrameDone =>
          \A p \in Orders :
              /\ OutputOf(p) = out'
              /\ VoicesOf(p) = Range(voices')
              /\ DOMAIN LevelsOf(p) = DOMAIN levels'
              /\ \A k \in DOMAIN levels' :
                     /\ LevelsOf(p)[k].peak = levels'[k].peak
                     /\ Counted(LevelsOf(p)[k].samples)
                            = Counted(levels'[k].samples)
                     /\ Cardinality({v \in Voices : v.key = k}) <= 1
                            => LevelsOf(p)[k].samples = levels'[k].samples]_vars

\* A frame has mixed two voices of one key at different places of the
\* sample.
C25_Witness ==
    /\ cb_pc = "running"
    /\ out # NoOutput
    /\ Len(voices) = 2
    /\ voices[1].key = voices[2].key
    /\ voices[1].current_peak # voices[2].current_peak
    /\ voices[1].key \in DOMAIN levels
    /\ Len(levels[voices[1].key].samples) = 2

\* The callback is inside its critical section exactly when it holds the
\* mutex, a control operation is inside exactly when it does.
OneInside ==
    /\ cb_pc = "running" <=> lock = "cb"
    /\ lock = "ctl" => (result # NoResult /\ cb_pc # "running")

\* The engine state changes in the step that takes the mutex (the whole
\* change of a control operation, the clearing of the snapshot by the
\* callback) or in a frame of the callback that holds it; a control
\* operation returns nothing while the callback holds it.
Transactions ==
    /\ engine' # engine
           => \/ lock = "free" /\ lock' \in {"ctl", "cb"}
              \/ lock = "cb" /\ cb_pc = "running" /\ cb_left > 0
    /\ out' # out => lock = "cb"
    /\ lock = "cb" => result' = result
    /\ lock = "ctl" => (engine' = engine /\ cb_pc' # "running")

\* A decode starts and goes on outside the mutex; its end takes the mutex
\* for the insert into the bank and nothing else.
DecodeOutside ==
    /\ decoding' \ decoding # {} => UNCHANGED <<engine, lock, cb_pc>>
    /\ decoding \ decoding' # {}
           => /\ UNCHANGED <<voices, master_volume, master_bpm, levels>>
              /\ \/ lock = "free" /\ lock' = "ctl"
                 \/ lock = "poisoned" /\ sound_bank' = sound_bank

\* C26: the callback and the control operations are never inside their
\* critical sections together, each changes the engine state in one piece
\* (what a control operation asks for while a buffer is produced waits for
\* the buffer to be done), and a load is inside only for its insert into
\* the bank, so that callbacks and control operations go on during a
\* decode.
C26_OneAtATime == []OneInside /\ [][Transactions /\ DecodeOutside]_vars

\* A frame has sounded, and another control operation has been served
\* before, while a decode is under way.
C26_Witness ==
    /\ decoding # {}
    /\ cb_pc = "running"
    /\ out # NoOutput
    /\ out # Silence
    /\ \E l \in decoding : \E v \in Voices : v.buffer # l[2]

\* The voice with the id i is in the list, a one-shot with a positive rate.
OneShotOn(i) ==
    \E v \in Voices : v.id = i /\ ~v.looping /\ v.playback_rate > 0

\* C27: with the callback running and no control operation issued, a voice
\* that does not loop and has a positive rate leaves the list: each frame
\* that leaves it out of the fade moves its position forward, and once it
\* fades each frame uses up one frame of its release.
C27_OneShotLeaves ==
    /\ \A i \in 1..MaxVoices :
           OneShotOn(i) ~> (~OneShotOn(i) \/ lock = "ctl" \/ cb_pc = "dead")
    /\ [][FrameDone =>
             \A v \in Voices :
                 (Survives(v) /\ ~v.looping /\ v.playback_rate > 0)
                     => /\ After(v).position > v.position
                        /\ After(v).is_fading_out
                               => FadeLeft(After(v))
                                      < IF v.is_fading_out
                                        THEN FadeLeft(v)
                                        ELSE After(v).release_samples + 1]_vars

\* The position x lies inside the buffer of v.
InsideBuffer(x, v) == 0 <= x /\ x < Den * Len(v.buffer.data)

\* v is looping from a loop start inside its buffer, untouched by a stop.
InLoop(v) ==
    /\ v.looping
    /\ ~v.is_fading_out
    /\ ~v.stop_command
    /\ ~v.stopped
    /\ InsideBuffer(v.loop_start, v)
    /\ InsideBuffer(v.position, v)

\* The step is a stop, a stop-all or an update that reaches the voice v.
Targets(v) ==
    /\ lock = "free"
    /\ \/ \E eff \in AllReleases : StopSound(v.key, eff)
       \/ StopAll
       \/ \E params \in AllParams : UpdateVoice(v.key, params)

\* C28: a voice played as a loop whose start lies inside its buffer starts at
\* that loop start, and whatever its loop end, every step other than a stop,
\* a stop-all or an update of its key leaves it in the list, looping on the
\* same loop, out of any release and at a position inside the buffer.
C28_LoopsPlayOn ==
    /\ [][\A i \in 1..Len(voices') :
              (/\ voices'[i].id \notin Ids(voices)
               /\ voices'[i].looping
               /\ InsideBuffer(voices'[i].loop_start, voices'[i]))
                  => /\ InLoop(voices'[i])
                     /\ voices'[i].position = voices'[i].loop_start]_vars
    /\ [][\A v \in Voices :
              (InLoop(v) /\ ~Targets(v))
                  => /\ Survives(v)
                     /\ InLoop(After(v))
                     /\ After(v).loop_start = v.loop_start
                     /\ After(v).loop_end = v.loop_end]_vars

\* A loop whose end lies past the end of the sample has played through four
\* frames and is back at its loop start.
C28_Witness ==
    \E v \in Voices :
        /\ InLoop(v)
        /\ v.loop_end > Den * Len(v.buffer.data)
        /\ v.fade_position = MaxFadePos
        /\ v.position = v.loop_start

\* The position of v one frame on, with no loop check in between.
Onward(v) ==
    F64(v.position
            + v.playback_rate * (IF v.buffer.channels = 1 THEN 1 ELSE 2))

\* C29: a fading voice has used up no more than its release, and as long as
\* it is in the list every step leaves it fading with the same release and
\* the same attack progress; a step other than a frame leaves its position
\* and its fade progress alone, a frame removes it when its release is used
\* up and otherwise moves it straight on, past any loop end, and uses up one
\* frame of the release (a frame that panics stops short of moving it on).
C29_FadingIsFinal ==
    /\ [](\A v \in Voices :
              v.is_fading_out => v.fade_out_pos <= v.release_samples)
    /\ [][\A v \in Voices :
              v.is_fading_out
                  => /\ (FrameDone /\ v.fade_out_pos >= v.release_samples)
                            => ~Survives(v)
                     /\ Survives(v)
                            => /\ After(v).is_fading_out
                               /\ After(v).fade_position = v.fade_position
                               /\ After(v).release_samples = v.release_samples
                               /\ IF FrameDone
                                  THEN /\ After(v).fade_out_pos
                                              = v.fade_out_pos + 1
                                       /\ After(v).position = Onward(v)
                                  ELSE /\ After(v).fade_out_pos
                                              \in {v.fade_out_pos,
                                                   IF Frame
                                                   THEN v.fade_out_pos + 1
                                                   ELSE v.fade_out_pos}
                                       /\ After(v).position = v.position]_vars

\* A voice made to loop while it fades has gone past its loop end.
C29_Witness ==
    \E v \in Voices :
        /\ v.is_fading_out
        /\ v.looping
        /\ v.fade_out_pos > 0
        /\ v.position >= v.loop_end
        /\ v.position > v.loop_start

====
